---------------------------- MODULE Spec2Model ----------------------------
(***************************************************************************)
(* A model of the traversal engine of wikidata-explorer (src/traverse.py): *)
(* the batch relation fetcher sparql_fetch_level, the label resolver       *)
(* resolve_labels, the relation parser parse_entity_relations and the      *)
(* three expansion strategies traverse, traverse_sparql, traverse_hybrid.  *)
(*                                                                         *)
(* Ids are pairs <<letter, number>>: Q(42) is the entity id "Q42" and      *)
(* P(31) the property id "P31".  Python dicts are functions whose DOMAIN   *)
(* is the key set; Python lists are sequences.                             *)
(***************************************************************************)
EXTENDS Integers, Sequences, FiniteSets, TLC

VARIABLES
    \* ---- the external data and the configuration ----
    snapshot,      \* the external data: entity id -> [statements, sitelinks]
    config,        \* what load_config returned
    LIMIT_RELATIONS,       \* module global, the per-node cap at depth 0
    LIMIT_RELATIONS_DEEP,  \* module global, the per-node cap at depth > 0
    \* ---- one traversal (Spec) ----
    pc,            \* "main", then the running strategy's loop, then "done"
    max_depth,     \* the clamped depth handed to the strategy
    edges,         \* list of (source_qid, property_id, target_qid)
    all_ids,       \* set of the ids to resolve
    depth_map,     \* qid -> depth
    label_map,     \* id -> label
    visited,       \* set of the qids discovered so far
    frontier,      \* batched strategies: the set to expand at this depth
    depth,         \* batched strategies: the loop variable
    queue,         \* per-node strategy: deque of (qid, depth)
    calls,         \* history: the external calls issued so far, in order
    \* ---- the same traversal run a second time (SpecTwice) ----
    run,           \* 1 in the first run, 2 in the second
    first,         \* history: what the first run returned
    \* ---- resolve_labels, called on its own (SpecLabels) ----
    l_pc,          \* "loop" while the loop over the batches runs, then "done"
    l_list,        \* qid_list
    l_unlabelled,  \* the ids the external source has no label for
    l_i,           \* the loop variable i
    l_mapping,     \* mapping
    l_calls,       \* history: the requests issued, [batch, ok], in order
    \* ---- parse_entity_relations, called on its own (SpecParse) ----
    p_pc,          \* "call" before the call, "done" after it returned
    p_data,        \* data: the record handed to the parser
    p_limit,       \* limit
    p_result,      \* (raw_relations, ids_to_resolve)
    \* ---- the entry points: main, api_search, api_traverse (SpecEntry) ----
    entry,         \* the entry point taken and what the caller typed or sent
    response,      \* how the entry point answered
    \* ---- sparql_fetch_level, called on its own (SpecFetch) ----
    f_pc,          \* "call" before the call, "done" after it returned
    f_sources,     \* source_qids: the set of ids handed to the fetcher
    f_limit,       \* limit: the per-source cap handed to the fetcher
    f_matching,    \* the rows of the snapshot that match the query
    f_ok,          \* whether sparql_query returned an answer (not None)
    f_bindings,    \* the rows the service returned (<<>> before the call)
    f_result       \* what sparql_fetch_level returned

fetchVars == <<f_pc, f_sources, f_limit, f_matching, f_ok, f_bindings, f_result>>

worldVars == <<snapshot, config>>

globalVars == <<LIMIT_RELATIONS, LIMIT_RELATIONS_DEEP>>

engineVars ==
    <<pc, max_depth, edges, all_ids, depth_map, label_map, visited, frontier,
      depth, queue, calls>>

twiceVars == <<run, first>>

labelVars == <<l_pc, l_list, l_unlabelled, l_i, l_mapping, l_calls>>

parseVars == <<p_pc, p_data, p_limit, p_result>>

entryVars == <<entry, response>>

\* What a traversal leaves alone.
asideVars == <<twiceVars, labelVars, fetchVars, parseVars, entryVars>>

vars ==
    <<worldVars, globalVars, engineVars, twiceVars, labelVars, fetchVars,
      parseVars, entryVars>>

---------------------------------------------------------------------------
(* Identifiers and small helpers                                           *)

Q(n) == <<"Q", n>>

P(n) == <<"P", n>>

\* The human-readable label the external source holds for an id.
LabelOf(id) == <<"label", id[1], id[2]>>

\* wd: and wdt: entities are returned as URIs: a namespace and a local name.
Uri(id) == <<"http://www.wikidata.org/entity", id>>

\* uri.rsplit("/", 1)[-1]: the part after the last "/".
LastSegment(uri) == uri[Len(uri)]

\* dict.get(key, default)
Get(map, key, default) == IF key \in DOMAIN map THEN map[key] ELSE default

\* dict[key] = value (overwrites an existing entry)
Put(map, key, value) == (key :> value) @@ map

\* dict.update(other): other's entries win
Update(map, other) == other @@ map

EmptyMap == <<>>

Min(a, b) == IF a <= b THEN a ELSE b

Reverse(seq) == [i \in 1..Len(seq) |-> seq[Len(seq) + 1 - i]]

\* seq rotated left by k places
Rotate(seq, k) ==
    [i \in 1..Len(seq) |-> seq[((i + k - 1) % Len(seq)) + 1]]

Take(seq, n) == SubSeq(seq, 1, Min(n, Len(seq)))

\* The number of entries of a list of edges whose source is s.
CountSource(edgeList, s) ==
    Cardinality({i \in 1..Len(edgeList) : edgeList[i][1] = s})

---------------------------------------------------------------------------
(* The graph-query service                                                 *)

\* One result row ("binding") of the query of sparql_fetch_level.  An
\* optional column is a sequence: <<>> when unbound, <<v>> when bound to v.
\* targetSitelinks is bound to a numeral, to text that is no numeral
\* (numeric = FALSE), or unbound.
Binding(s, p, t, sitelinks, labelled) ==
    [source |-> Uri(s), prop |-> Uri(p), target |-> Uri(t),
     targetSitelinks |-> sitelinks,
     sourceLabel |-> IF labelled THEN <<LabelOf(s)>> ELSE <<>>,
     propLabel   |-> IF labelled THEN <<LabelOf(p)>> ELSE <<>>,
     targetLabel |-> IF labelled THEN <<LabelOf(t)>> ELSE <<>>]

Numeral(n) == <<[numeric |-> TRUE, value |-> n]>>

NotANumeral == <<[numeric |-> FALSE, value |-> 0]>>

\* The row budget per source of the query's LIMIT clause.
RowBudget == 100

\* A mutant of TotalLimit: the row budget is left out.
TotalLimitWithoutBudget(source_qids) == Cardinality(source_qids)

\* total_limit = 100 * len(source_qids)
TotalLimit(source_qids) == RowBudget * Cardinality(source_qids)

\* The service applies LIMIT to the matching rows in an order of its own
\* choosing.  The orders modelled are the rotations of the stored order and
\* of its reverse: every row can come first, and every source can have any
\* of its rows cut off.
ServiceOrders(matching, total_limit) ==
    IF Len(matching) = 0 THEN {<<>>}
    ELSE {Take(Rotate(r, k), total_limit) :
            r \in {matching, Reverse(matching)}, k \in 0..(Len(matching) - 1)}

---------------------------------------------------------------------------
(* sparql_fetch_level                                                      *)

EmptyResult ==
    [edges |-> <<>>, label_map |-> EmptyMap, new_targets |-> {},
     sitelinks_map |-> EmptyMap]

\* int(binding.get("targetSitelinks", {}).get("value", 0)), 0 on ValueError
SitelinksValue(binding) ==
    IF binding.targetSitelinks = <<>> THEN 0
    ELSE IF binding.targetSitelinks[1].numeric
         THEN binding.targetSitelinks[1].value
         ELSE 0

\* binding.get(column, {}).get("value", default)
LabelValue(column, default) == IF column = <<>> THEN default ELSE column[1]

\* A mutant of QuotaExhausted: the comparison is off by one.
QuotaExhaustedOffByOne(count, limit) == count > limit

\* per_source_count[source_qid] >= limit: the row is skipped
QuotaExhausted(count, limit) == count >= limit

\* A mutant of FetchRow: a row whose triple was accepted before is dropped.
FetchRowDeduplicating(acc, binding, limit) ==
    LET source_qid == LastSegment(binding.source)
        prop_id    == LastSegment(binding.prop)
        target_qid == LastSegment(binding.target)
        count      == Get(acc.per_source_count, source_qid, 0)
        seen       == \E i \in 1..Len(acc.edges) :
                         acc.edges[i] = <<source_qid, prop_id, target_qid>>
    IN  IF QuotaExhausted(count, limit) \/ seen
        THEN [acc EXCEPT !.per_source_count = Put(@, source_qid, count)]
        ELSE [edges |-> Append(acc.edges, <<source_qid, prop_id, target_qid>>),
              new_targets |-> acc.new_targets \cup {target_qid},
              sitelinks_map |->
                  Put(acc.sitelinks_map, target_qid, SitelinksValue(binding)),
              label_map |->
                  Put(Put(Put(acc.label_map,
                      source_qid, LabelValue(binding.sourceLabel, source_qid)),
                      prop_id, LabelValue(binding.propLabel, prop_id)),
                      target_qid, LabelValue(binding.targetLabel, target_qid)),
              per_source_count |-> Put(acc.per_source_count, source_qid, count + 1)]

\* One iteration of the loop over the bindings.
FetchRow(acc, binding, limit) ==
    LET source_qid == LastSegment(binding.source)
        prop_id    == LastSegment(binding.prop)
        target_qid == LastSegment(binding.target)
        count      == Get(acc.per_source_count, source_qid, 0)
    IN  IF QuotaExhausted(count, limit)
        THEN [acc EXCEPT !.per_source_count = Put(@, source_qid, count)]
        ELSE [edges |-> Append(acc.edges, <<source_qid, prop_id, target_qid>>),
              new_targets |-> acc.new_targets \cup {target_qid},
              sitelinks_map |->
                  Put(acc.sitelinks_map, target_qid, SitelinksValue(binding)),
              label_map |->
                  Put(Put(Put(acc.label_map,
                      source_qid, LabelValue(binding.sourceLabel, source_qid)),
                      prop_id, LabelValue(binding.propLabel, prop_id)),
                      target_qid, LabelValue(binding.targetLabel, target_qid)),
              per_source_count |-> Put(acc.per_source_count, source_qid, count + 1)]

\* The loop over bindings[lo..hi], in order, from the accumulators acc.  The
\* range is walked by halves and the left half is evaluated before the right
\* one starts (the test on left is always true), which keeps the evaluation
\* shallow; the rows are still processed first to last.
RECURSIVE FetchLoop(_, _, _, _, _)
FetchLoop(acc, bindings, lo, hi, limit) ==
    IF lo > hi THEN acc
    ELSE IF lo = hi THEN FetchRow(acc, bindings[lo], limit)
    ELSE LET mid == (lo + hi) \div 2
             left == FetchLoop(acc, bindings, lo, mid, limit)
         IN  IF Len(left.edges) >= 0
             THEN FetchLoop(left, bindings, mid + 1, hi, limit)
             ELSE left

\* A mutant of sparql_fetch_level: the rows are processed although the
\* request failed.
sparql_fetch_level_IgnoringFailure(source_qids, limit, ok, bindings) ==
    IF source_qids = {} THEN EmptyResult
    ELSE LET acc == FetchLoop(EmptyResult @@ [per_source_count |-> EmptyMap],
                              bindings, 1, Len(bindings), limit)
         IN  [edges |-> acc.edges, label_map |-> acc.label_map,
              new_targets |-> acc.new_targets,
              sitelinks_map |-> acc.sitelinks_map]

\* sparql_fetch_level(source_qids, limit, config), given what sparql_query
\* returned: ok = FALSE is a timeout or a failed request (None), bindings
\* are the rows of a successful answer.  An answer without rows is falsy
\* in neither case: result is a non-empty dict, and the loop runs zero times.
sparql_fetch_level(source_qids, limit, ok, bindings) ==
    IF source_qids = {} THEN EmptyResult
    ELSE IF ~ok THEN EmptyResult
    ELSE LET acc == FetchLoop(EmptyResult @@ [per_source_count |-> EmptyMap],
                              bindings, 1, Len(bindings), limit)
         IN  [edges |-> acc.edges, label_map |-> acc.label_map,
              new_targets |-> acc.new_targets,
              sitelinks_map |-> acc.sitelinks_map]

---------------------------------------------------------------------------
(* The single-item endpoint and parse_entity_relations                     *)

\* A statement value of the snapshot: an item, or a point in time.
ItemValue(q) == [type |-> "item", item |-> q]

TimeValue == [type |-> "time", item |-> <<>>]

\* A claim group of an entity: a property and its statements' values, in the
\* order the item endpoint lists them.
Group(p, values) == [prop |-> p, values |-> values]

\* claim['value']['content'] as the item endpoint encodes a value: an item is
\* the bare id string, a point in time is a dict (which has no 'id' key).
RestContent(value) ==
    IF value.type = "item"
    THEN [kind |-> "str", text |-> value.item, id |-> <<>>]
    ELSE [kind |-> "dict", text |-> <<>>, id |-> <<>>]

\* The JSON record of an entity: its statements by property, in order, and
\* one sitelinks entry per linked site.
RestRecord(entity) ==
    [statements |->
        [i \in 1..Len(entity.statements) |->
            [prop_id |-> entity.statements[i].prop,
             claim_group |->
                [j \in 1..Len(entity.statements[i].values) |->
                    [content |-> RestContent(entity.statements[i].values[j])]]]],
     sitelinks |-> 1..entity.sitelinks]

\* What a failed request or an unparsable answer yields.
None == [statements |-> <<>>, sitelinks |-> {}, none |-> TRUE]

\* A mutant of get_entity_rest: a failed request yields the record all the
\* same.
get_entity_rest_IgnoringFailure(qid, ok) ==
    IF qid \in DOMAIN snapshot
    THEN RestRecord(snapshot[qid]) @@ [none |-> FALSE]
    ELSE [statements |-> <<>>, sitelinks |-> {}, none |-> FALSE]

\* The JSON body the item endpoint answers with for an id it does not hold:
\* an error object, without statements or sitelinks.
ErrorBody == [statements |-> <<>>, sitelinks |-> {}]

\* get_entity_rest(qid): response.json(), whatever the body is, or None when
\* the request or the decoding fails.
get_entity_rest(qid, ok) ==
    IF ~ok THEN None
    ELSE IF qid \in DOMAIN snapshot
         THEN RestRecord(snapshot[qid]) @@ [none |-> FALSE]
         ELSE ErrorBody @@ [none |-> FALSE]

\* `not data`
Falsy(data) == data.none

\* The target id parse_entity_relations reads from a claim's content: the
\* string itself when it starts with 'Q', a dict's 'id', else None (<<>>).
TargetId(data_value) ==
    IF data_value.kind = "str" /\ data_value.text # <<>> /\ data_value.text[1] = "Q"
    THEN data_value.text
    ELSE IF data_value.kind = "dict" THEN data_value.id
    ELSE <<>>

\* A mutant of LimitReached: the comparison is off by one.
LimitReachedOffByOne(count, limit) == count > limit

\* count >= limit: the loop over the statements breaks
LimitReached(count, limit) == count >= limit

EmptyRelations == [raw_relations |-> <<>>, ids_to_resolve |-> {}]

\* The loop of parse_entity_relations from statement i on; count is
\* Len(acc.raw_relations).
RECURSIVE ParseLoop(_, _, _, _)
ParseLoop(acc, statements, i, limit) ==
    IF i > Len(statements) \/ LimitReached(Len(acc.raw_relations), limit) THEN acc
    ELSE LET prop_id   == statements[i].prop_id
             claim     == statements[i].claim_group[1]
             target_id == TargetId(claim.content)
         IN  IF target_id # <<>>
             THEN ParseLoop(
                    [raw_relations |-> Append(acc.raw_relations, <<prop_id, target_id>>),
                     ids_to_resolve |-> acc.ids_to_resolve \cup {prop_id, target_id}],
                    statements, i + 1, limit)
             ELSE ParseLoop(acc, statements, i + 1, limit)

\* parse_entity_relations(data, limit): (raw_relations, ids_to_resolve)
parse_entity_relations(data, limit) ==
    ParseLoop(EmptyRelations, data.statements, 1, limit)

---------------------------------------------------------------------------
(* resolve_labels                                                          *)

\* The ids per request of the label endpoint.
ChunkSize == 50

\* The entities object the label endpoint returns for a batch: one entry per
\* requested id, with an English label when the source has one.
LabelAnswer(batch, unlabelled) ==
    [qid \in {batch[k] : k \in 1..Len(batch)} |->
        [labels |-> IF qid \in unlabelled THEN <<>> ELSE <<LabelOf(qid)>>]]

\* A mutant of ChunkOf: the slice is one id short.
ChunkOfShort(qid_list, i) ==
    SubSeq(qid_list, i + 1, Min(i + ChunkSize - 1, Len(qid_list)))

\* batch = qid_list[i:i+50] (i counts from 0)
ChunkOf(qid_list, i) == SubSeq(qid_list, i + 1, Min(i + ChunkSize, Len(qid_list)))

\* A mutant of ResolveChunk: a failed request drops what was resolved before.
ResolveChunkAbortive(mapping, batch, ok, unlabelled) ==
    IF ~ok THEN EmptyMap
    ELSE Update(mapping,
                [qid \in {batch[k] : k \in 1..Len(batch)} |->
                    IF qid \in unlabelled THEN qid ELSE LabelOf(qid)])

\* A mutant of ResolveChunk: an entity without a label gets no entry.
ResolveChunkSkippingUnlabelled(mapping, batch, ok, unlabelled) ==
    IF ~ok THEN mapping
    ELSE Update(mapping,
                [qid \in {batch[k] : k \in 1..Len(batch)} \ unlabelled |->
                    LabelOf(qid)])

\* One iteration of the loop of resolve_labels: the request for one batch
\* succeeds (ok) and each returned entity is entered with its label, the id
\* itself standing in for a missing label; or it raises and the mapping is
\* left as it was.
ResolveChunk(mapping, batch, ok, unlabelled) ==
    IF ~ok THEN mapping
    ELSE LET entities == LabelAnswer(batch, unlabelled)
         IN  Update(mapping,
                    [qid \in DOMAIN entities |->
                        LabelValue(entities[qid].labels, qid)])

\* The loop of resolve_labels from offset i on; oks[k] tells whether the
\* k-th request succeeds.
RECURSIVE ResolveLoop(_, _, _, _, _)
ResolveLoop(mapping, qid_list, i, oks, unlabelled) ==
    IF i >= Len(qid_list) THEN mapping
    ELSE ResolveLoop(
            ResolveChunk(mapping, ChunkOf(qid_list, i),
                         oks[(i \div ChunkSize) + 1], unlabelled),
            qid_list, i + ChunkSize, oks, unlabelled)

\* resolve_labels(qids), qid_list being list(qids)
resolve_labels(qid_list, oks, unlabelled) ==
    IF Len(qid_list) = 0 THEN EmptyMap
    ELSE ResolveLoop(EmptyMap, qid_list, 0, oks, unlabelled)

\* list(qids) for a set of few ids: some order of the set.
RECURSIVE ListOf(_)
ListOf(ids) ==
    IF ids = {} THEN <<>>
    ELSE LET x == CHOOSE y \in ids : TRUE IN <<x>> \o ListOf(ids \ {x})

---------------------------------------------------------------------------
(* The external data a traversal runs against                              *)

\* The entities of the snapshot are Q(1) .. Q(NumNodes).
NumNodes == 4

Nodes == {Q(i) : i \in 1..NumNodes}

\* The entity the traversal starts from.
start_qid == Q(1)

start_label == LabelOf(start_qid)

\* The statements an entity can have in a snapshot.
StatementChoices(q) ==
    CASE q = Q(1) ->
           { \* four item-valued properties after one that is not, two of
             \* them with the same target
             <<Group(P(1), <<TimeValue>>), Group(P(2), <<ItemValue(Q(2))>>),
               Group(P(3), <<ItemValue(Q(2))>>), Group(P(4), <<ItemValue(Q(3))>>),
               Group(P(5), <<ItemValue(Q(4))>>)>>,
             \* a property with two statements, and a self-loop
             <<Group(P(2), <<ItemValue(Q(2)), ItemValue(Q(3))>>),
               Group(P(3), <<ItemValue(Q(1))>>)>>,
             <<Group(P(2), <<ItemValue(Q(2))>>), Group(P(4), <<ItemValue(Q(3))>>)>> }
      [] q = Q(2) ->
           { <<Group(P(2), <<ItemValue(Q(3))>>), Group(P(3), <<ItemValue(Q(4))>>)>>,
             <<Group(P(2), <<ItemValue(Q(1))>>)>> }
      [] q = Q(3) ->
           { <<Group(P(2), <<ItemValue(Q(4))>>)>>,
             <<Group(P(3), <<ItemValue(Q(2))>>),
               Group(P(2), <<ItemValue(Q(4)), ItemValue(Q(1))>>)>> }
      [] q = Q(4) ->
           { <<>>, <<Group(P(2), <<ItemValue(Q(1))>>)>> }
      [] OTHER -> { <<>> }

\* The number of sitelinks an entity can have in a snapshot.
SitelinkChoices(q) ==
    CASE q = Q(1) -> {500}
      [] q = Q(2) -> {10, 500}
      [] q = Q(3) -> {0, 500}
      [] OTHER -> {10}

StatementMaps ==
    {f \in [Nodes -> UNION {StatementChoices(q) : q \in Nodes}] :
        \A q \in Nodes : f[q] \in StatementChoices(q)}

SitelinkMaps ==
    {f \in [Nodes -> UNION {SitelinkChoices(q) : q \in Nodes}] :
        \A q \in Nodes : f[q] \in SitelinkChoices(q)}

Snapshots ==
    {[q \in Nodes |-> [statements |-> st[q], sitelinks |-> sl[q]]] :
        st \in StatementMaps, sl \in SitelinkMaps}

\* The ids without an English label in the external source.
Unlabelled == {P(5)}

\* The targetSitelinks column of a row: unbound for a target without
\* sitelinks.
SitelinksColumn(n) == IF n = 0 THEN <<>> ELSE Numeral(n)

\* The rows of the query for one claim group of source s: one per item value.
RowsOfGroup(world, s, group) ==
    LET IsItem(v) == v.type = "item"
        items == SelectSeq(group.values, IsItem)
    IN  [j \in 1..Len(items) |->
            Binding(s, group.prop, items[j].item,
                    SitelinksColumn(world[items[j].item].sitelinks), TRUE)]

RECURSIVE RowsOfGroups(_, _, _, _)
RowsOfGroups(world, s, groups, i) ==
    IF i > Len(groups) THEN <<>>
    ELSE RowsOfGroup(world, s, groups[i]) \o RowsOfGroups(world, s, groups, i + 1)

\* The rows of the snapshot that match the query for source_qids, sources in
\* the order of their numbers.
RECURSIVE MatchingRows(_, _, _)
MatchingRows(world, source_qids, n) ==
    IF n > NumNodes THEN <<>>
    ELSE (IF Q(n) \in source_qids
          THEN RowsOfGroups(world, Q(n), world[Q(n)].statements, 1)
          ELSE <<>>)
         \o MatchingRows(world, source_qids, n + 1)

\* No first run has returned yet.
NoRun == [edges |-> EmptyMap, depth_map |-> EmptyMap, calls |-> <<>>]

\* resolve_labels is not being called on its own.
LabelsIdle ==
    /\ l_pc = "idle"
    /\ l_list = <<>>
    /\ l_unlabelled = {}
    /\ l_i = 0
    /\ l_mapping = EmptyMap
    /\ l_calls = <<>>

\* parse_entity_relations is not being called on its own.
ParseIdle ==
    /\ p_pc = "idle"
    /\ p_data = [statements |-> <<>>]
    /\ p_limit = 0
    /\ p_result = EmptyRelations

\* No entry point has been taken: what depth the caller would type is not
\* asked for.
NoEntry == [point |-> "none"]

\* How an entry point answers: a status (an HTTP status, or the branch by
\* which main returned or went on), the terms searched for, and the nodes
\* and edges, or the candidates, handed back.
Answer(status, searches, nodes, body_edges) ==
    [status |-> status, searches |-> searches, nodes |-> nodes,
     edges |-> body_edges]

NoResponse == Answer("none", <<>>, <<>>, <<>>)

EntryIdle ==
    /\ entry = NoEntry
    /\ response = NoResponse

\* sparql_fetch_level is not being called on its own.
FetchIdle ==
    /\ f_pc = "idle"
    /\ f_sources = {}
    /\ f_limit = 0
    /\ f_matching = <<>>
    /\ f_ok = FALSE
    /\ f_bindings = <<>>
    /\ f_result = EmptyResult

---------------------------------------------------------------------------
(* The configuration and main's preparation of a traversal                 *)

\* The configurations a run is given: load_config's keys that the engine
\* reads.
Configs ==
    [mode : {"rest", "sparql", "hybrid"},
     depth : 1..3,
     limit_relations : {1, 3},
     limit_relations_deep : {1, 2},
     max_entity_sitelinks : {0, 100}]

\* A mutant of Clamp: the lower bound is left out.
ClampFromAboveOnly(requested) == IF requested < 3 THEN requested ELSE 3

\* max(1, min(3, max_depth))
Clamp(requested) ==
    LET capped == IF requested < 3 THEN requested ELSE 3
    IN  IF capped > 1 THEN capped ELSE 1

\* What the caller types at a prompt: a numeral that int() reads, or
\* anything else.
TypedNumber(n) == [numeric |-> TRUE, value |-> n]

TypedText == [numeric |-> FALSE, value |-> 0]

\* int(depth_input), 1 on ValueError
DepthTyped(typed) == IF typed.numeric THEN typed.value ELSE 1

\* The depth main asks the strategy for before clamping: the configured one
\* unless it is None (the key is absent), else the one typed.
RequestedDepth ==
    IF "depth" \in DOMAIN config THEN config.depth
    ELSE DepthTyped(entry.depth_input)

\* One entry of the history of external calls.
Call(kind, ids, limit, at_depth, ok) ==
    [kind |-> kind, ids |-> ids, limit |-> limit, depth |-> at_depth, ok |-> ok]

EngineIdle ==
    /\ pc = "idle"
    /\ max_depth = 0
    /\ edges = <<>>
    /\ all_ids = {}
    /\ depth_map = EmptyMap
    /\ label_map = EmptyMap
    /\ visited = {}
    /\ frontier = {}
    /\ depth = 0
    /\ queue = <<>>
    /\ calls = <<>>
    /\ run = 1
    /\ first = NoRun

\* The module as loaded: the globals hold their defaults, no traversal has
\* started.
Init ==
    /\ snapshot \in Snapshots
    /\ config \in Configs
    /\ LIMIT_RELATIONS = 20
    /\ LIMIT_RELATIONS_DEEP = 5
    /\ pc = "main"
    /\ max_depth = 0
    /\ edges = <<>>
    /\ all_ids = {}
    /\ depth_map = EmptyMap
    /\ label_map = EmptyMap
    /\ visited = {}
    /\ frontier = {}
    /\ depth = 0
    /\ queue = <<>>
    /\ calls = <<>>
    /\ run = 1
    /\ first = NoRun
    /\ LabelsIdle
    /\ FetchIdle
    /\ ParseIdle
    /\ EntryIdle

\* A mutant of Start: the module globals keep their defaults.
StartKeepingGlobals ==
    /\ UNCHANGED globalVars
    /\ max_depth' = Clamp(RequestedDepth)
    /\ edges' = <<>>
    /\ all_ids' = {start_qid}
    /\ depth_map' = (start_qid :> 0)
    /\ visited' = {start_qid}
    /\ depth' = 0
    /\ calls' = <<>>
    /\ \/ /\ config.mode = "rest"
          /\ pc' = "rest"
          /\ queue' = << <<start_qid, 0>> >>
          /\ label_map' = EmptyMap
          /\ frontier' = {}
       \/ /\ config.mode = "sparql"
          /\ pc' = "sparql"
          /\ frontier' = {start_qid}
          /\ label_map' = (start_qid :> start_label)
          /\ queue' = <<>>
       \/ /\ config.mode = "hybrid"
          /\ pc' = "hybrid_root"
          /\ frontier' = {}
          /\ label_map' = (start_qid :> start_label)
          /\ queue' = <<>>

\* main up to the first iteration of the chosen strategy: the globals are
\* set from the configuration, the depth is clamped, and the strategy the
\* mode names initialises its accumulators.
Start ==
    /\ LIMIT_RELATIONS' = config.limit_relations
    /\ LIMIT_RELATIONS_DEEP' = config.limit_relations_deep
    /\ max_depth' = Clamp(RequestedDepth)
    /\ edges' = <<>>
    /\ all_ids' = {start_qid}
    /\ depth_map' = (start_qid :> 0)
    /\ visited' = {start_qid}
    /\ depth' = 0
    /\ calls' = <<>>
    /\ \/ /\ config.mode = "rest"
          /\ pc' = "rest"
          /\ queue' = << <<start_qid, 0>> >>
          /\ label_map' = EmptyMap
          /\ frontier' = {}
       \/ /\ config.mode = "sparql"
          /\ pc' = "sparql"
          /\ frontier' = {start_qid}
          /\ label_map' = (start_qid :> start_label)
          /\ queue' = <<>>
       \/ /\ config.mode = "hybrid"
          /\ pc' = "hybrid_root"
          /\ frontier' = {}
          /\ label_map' = (start_qid :> start_label)
          /\ queue' = <<>>

\* main is entered for the term of start_qid.
Main ==
    /\ pc = "main"
    /\ Start
    /\ UNCHANGED <<worldVars, asideVars>>

---------------------------------------------------------------------------
(* traverse: the per-node strategy                                         *)

\* A mutant of RestHub: the root is tested like any other node.
RestHubIncludingRoot(data, current_depth, hub_threshold) ==
    /\ hub_threshold > 0
    /\ Cardinality(data.sitelinks) >= hub_threshold

\* hub_threshold > 0 and current_depth > 0 and
\* len(data.get("sitelinks", {})) >= hub_threshold
RestHub(data, current_depth, hub_threshold) ==
    /\ hub_threshold > 0
    /\ current_depth > 0
    /\ Cardinality(data.sitelinks) >= hub_threshold

\* A mutant of NotVisited: every target counts as new.
NotVisitedAlways(t, seen) == TRUE

\* `t not in visited`
NotVisited(t, seen) == t \notin seen

\* A mutant of WithinDepth: every new target is enqueued.
WithinDepthAlways(next_depth, limit_depth) == TRUE

\* current_depth + 1 < max_depth: the target is enqueued for expansion
WithinDepth(next_depth, limit_depth) == next_depth < limit_depth

\* The loop of traverse over raw_relations from relation i on, on the
\* accumulators acc = [edges, visited, depth_map, queue].
RECURSIVE RestRelations(_, _, _, _, _)
RestRelations(acc, raw_relations, i, current_qid, current_depth) ==
    IF i > Len(raw_relations) THEN acc
    ELSE LET prop_id   == raw_relations[i][1]
             target_id == raw_relations[i][2]
             appended  == Append(acc.edges, <<current_qid, prop_id, target_id>>)
         IN  RestRelations(
                IF NotVisited(target_id, acc.visited)
                THEN [edges |-> appended,
                      visited |-> acc.visited \cup {target_id},
                      depth_map |-> Put(acc.depth_map, target_id, current_depth + 1),
                      queue |-> IF WithinDepth(current_depth + 1, max_depth)
                                THEN Append(acc.queue, <<target_id, current_depth + 1>>)
                                ELSE acc.queue]
                ELSE [acc EXCEPT !.edges = appended],
                raw_relations, i + 1, current_qid, current_depth)

\* One iteration of the while loop of traverse: the head of the queue is
\* fetched; a failed fetch or a hub ends the iteration, otherwise the
\* node's relations are appended and their new targets discovered.
RestStep ==
    /\ pc = "rest"
    /\ queue # <<>>
    /\ LET current_qid   == Head(queue)[1]
           current_depth == Head(queue)[2]
           limit == IF current_depth = 0 THEN LIMIT_RELATIONS
                    ELSE LIMIT_RELATIONS_DEEP
       IN  \E ok \in BOOLEAN :
           LET data == get_entity_rest(current_qid, ok)
               parsed == parse_entity_relations(data, limit)
               acc == RestRelations(
                        [edges |-> edges, visited |-> visited,
                         depth_map |-> depth_map, queue |-> Tail(queue)],
                        parsed.raw_relations, 1, current_qid, current_depth)
           IN  /\ calls' = Append(calls,
                              Call("rest", {current_qid}, limit, current_depth, ok))
               /\ IF Falsy(data)
                     \/ RestHub(data, current_depth, config.max_entity_sitelinks)
                  THEN /\ queue' = Tail(queue)
                       /\ UNCHANGED <<edges, all_ids, depth_map, visited>>
                  ELSE /\ all_ids' = all_ids \cup parsed.ids_to_resolve
                       /\ edges' = acc.edges
                       /\ visited' = acc.visited
                       /\ depth_map' = acc.depth_map
                       /\ queue' = acc.queue
    /\ UNCHANGED <<pc, max_depth, label_map, frontier, depth>>
    /\ UNCHANGED <<worldVars, globalVars, asideVars>>

\* traverse returns and main resolves the labels of all_ids in bulk, unless
\* there is no edge.
RestReturn ==
    /\ pc = "rest"
    /\ queue = <<>>
    /\ pc' = "done"
    /\ IF edges = <<>>
       THEN UNCHANGED <<label_map, calls>>
       ELSE \E ok \in BOOLEAN :
            LET qid_list == ListOf(all_ids)
            IN  /\ label_map' =
                     Put(resolve_labels(qid_list, <<ok>>, Unlabelled),
                         start_qid, start_label)
                /\ calls' = Append(calls, Call("labels", all_ids, 0, 0, ok))
    /\ UNCHANGED <<max_depth, edges, all_ids, depth_map, visited, frontier,
                   depth, queue>>
    /\ UNCHANGED <<worldVars, globalVars, asideVars>>

---------------------------------------------------------------------------
(* traverse_sparql and traverse_hybrid: the batched levels                 *)

\* A mutant of IsHub: the threshold is compared even when it is 0.
IsHubAtAnyThreshold(t, sitelinks_map, hub_threshold) ==
    Get(sitelinks_map, t, 0) >= hub_threshold

\* A mutant of IsHub: no target is ever a hub.
IsHubNever(t, sitelinks_map, hub_threshold) == FALSE

\* hub_threshold > 0 and sitelinks_map.get(t, 0) >= hub_threshold
IsHub(t, sitelinks_map, hub_threshold) ==
    /\ hub_threshold > 0
    /\ Get(sitelinks_map, t, 0) >= hub_threshold

\* The targets of a level that were not visited before.
Discovered(new_targets, seen) == {t \in new_targets : NotVisited(t, seen)}

\* A mutant of NextFrontier: targets visited before are fetched again.
NextFrontierOfAllTargets(new_targets, seen, sitelinks_map, hub_threshold) ==
    {t \in new_targets : ~IsHub(t, sitelinks_map, hub_threshold)}

\* The next frontier: the newly discovered targets that are no hubs.
NextFrontier(new_targets, seen, sitelinks_map, hub_threshold) ==
    {t \in Discovered(new_targets, seen) : ~IsHub(t, sitelinks_map, hub_threshold)}

\* A mutant of DepthsAfter: the new targets get no entry.
DepthsAfterNone(depths, new_targets, seen, level) == depths

\* A mutant of DepthsAfter: the depth of a target seen again is overwritten.
DepthsAfterOverwriting(depths, new_targets, seen, level) ==
    [t \in new_targets |-> level + 1] @@ depths

\* depth_map[t] = depth + 1 for each newly discovered target
DepthsAfter(depths, new_targets, seen, level) ==
    [t \in Discovered(new_targets, seen) |-> level + 1] @@ depths

\* A mutant of IdsOf: the property ids are left out.
IdsOfTargetsOnly(level_edges) ==
    {level_edges[i][3] : i \in 1..Len(level_edges)}

\* all_ids after a level: the property and target ids of its edges
IdsOf(level_edges) ==
    UNION {{level_edges[i][2], level_edges[i][3]} : i \in 1..Len(level_edges)}

\* A mutant of LevelsLeft: one level too many.
LevelsLeftOneMore(level, limit_depth) == level < limit_depth + 1

\* `for depth in range(max_depth)` has an iteration left
LevelsLeft(level, limit_depth) == level < limit_depth

\* One iteration of a batched loop that is not cut short by an empty
\* frontier: the whole frontier is fetched in one query (ok tells whether
\* the query succeeds), the edges and labels are accumulated and the next
\* frontier is built.
BatchedLevel(limit, ok) ==
    \E rows \in ServiceOrders(MatchingRows(snapshot, frontier, 1), TotalLimit(frontier)) :
        LET level == sparql_fetch_level(frontier, limit, ok, rows)
        IN  /\ calls' = Append(calls, Call("sparql", frontier, limit, depth, ok))
            /\ edges' = edges \o level.edges
            /\ label_map' = Update(label_map, level.label_map)
            /\ all_ids' = all_ids \cup IdsOf(level.edges)
            /\ visited' = visited \cup Discovered(level.new_targets, visited)
            /\ depth_map' = DepthsAfter(depth_map, level.new_targets, visited, depth)
            /\ frontier' = NextFrontier(level.new_targets, visited,
                                        level.sitelinks_map, config.max_entity_sitelinks)
            /\ depth' = depth + 1

\* One iteration of the loop of traverse_sparql.
SparqlLevel(oks) ==
    /\ pc = "sparql"
    /\ LevelsLeft(depth, max_depth)
    /\ frontier # {}
    /\ \E ok \in oks :
          BatchedLevel(IF depth = 0 THEN config.limit_relations
                       ELSE config.limit_relations_deep, ok)
    /\ UNCHANGED <<pc, max_depth, queue>>
    /\ UNCHANGED <<worldVars, globalVars, asideVars>>

\* The loop of traverse_sparql ends (the range is exhausted or the frontier
\* is empty) and the function returns.
SparqlReturn ==
    /\ pc = "sparql"
    /\ ~(LevelsLeft(depth, max_depth) /\ frontier # {})
    /\ pc' = "done"
    /\ UNCHANGED <<max_depth, edges, all_ids, depth_map, label_map, visited,
                   frontier, depth, queue, calls>>
    /\ UNCHANGED <<worldVars, globalVars, asideVars>>

\* The loop of traverse_hybrid over raw_relations from relation i on, on
\* the accumulators acc = [edges, visited, depth_map, frontier].
RECURSIVE HybridRelations(_, _, _)
HybridRelations(acc, raw_relations, i) ==
    IF i > Len(raw_relations) THEN acc
    ELSE LET prop_id    == raw_relations[i][1]
             target_qid == raw_relations[i][2]
             appended   == Append(acc.edges, <<start_qid, prop_id, target_qid>>)
         IN  HybridRelations(
                IF NotVisited(target_qid, acc.visited)
                THEN [edges |-> appended,
                      visited |-> acc.visited \cup {target_qid},
                      depth_map |-> Put(acc.depth_map, target_qid, 1),
                      frontier |-> acc.frontier \cup {target_qid}]
                ELSE [acc EXCEPT !.edges = appended],
                raw_relations, i + 1)

\* Depth 0 of traverse_hybrid: the root is fetched from the item endpoint;
\* without data the function returns, otherwise the root's relations become
\* edges, their new targets the first frontier, and their labels are
\* resolved in bulk.
HybridRoot ==
    /\ pc = "hybrid_root"
    /\ \E ok \in BOOLEAN :
       LET data == get_entity_rest(start_qid, ok)
           parsed == parse_entity_relations(data, config.limit_relations)
           acc == HybridRelations(
                    [edges |-> edges, visited |-> visited,
                     depth_map |-> depth_map, frontier |-> {}],
                    parsed.raw_relations, 1)
           fetched == Call("rest", {start_qid}, config.limit_relations, 0, ok)
       IN  IF Falsy(data)
           THEN /\ pc' = "done"
                /\ calls' = Append(calls, fetched)
                /\ UNCHANGED <<edges, all_ids, depth_map, label_map, visited,
                               frontier, depth>>
           ELSE \E labels_ok \in BOOLEAN :
                /\ pc' = "hybrid"
                /\ all_ids' = all_ids \cup parsed.ids_to_resolve
                /\ edges' = acc.edges
                /\ visited' = acc.visited
                /\ depth_map' = acc.depth_map
                /\ frontier' = acc.frontier
                /\ label_map' =
                     Update(label_map,
                            resolve_labels(ListOf(parsed.ids_to_resolve),
                                           <<labels_ok>>, Unlabelled))
                /\ calls' =
                     IF parsed.ids_to_resolve = {} THEN Append(calls, fetched)
                     ELSE Append(Append(calls, fetched),
                                 Call("labels", parsed.ids_to_resolve, 0, 0, labels_ok))
                /\ depth' = 1
    /\ UNCHANGED <<max_depth, queue>>
    /\ UNCHANGED <<worldVars, globalVars, asideVars>>

\* One iteration of the batched loop of traverse_hybrid (depth 1 and more).
HybridLevel ==
    /\ pc = "hybrid"
    /\ LevelsLeft(depth, max_depth)
    /\ frontier # {}
    /\ \E ok \in BOOLEAN : BatchedLevel(config.limit_relations_deep, ok)
    /\ UNCHANGED <<pc, max_depth, queue>>
    /\ UNCHANGED <<worldVars, globalVars, asideVars>>

\* The batched loop of traverse_hybrid ends and the function returns.
HybridReturn ==
    /\ pc = "hybrid"
    /\ ~(LevelsLeft(depth, max_depth) /\ frontier # {})
    /\ pc' = "done"
    /\ UNCHANGED <<max_depth, edges, all_ids, depth_map, label_map, visited,
                   frontier, depth, queue, calls>>
    /\ UNCHANGED <<worldVars, globalVars, asideVars>>

Next ==
    \/ Main
    \/ RestStep
    \/ RestReturn
    \/ SparqlLevel(BOOLEAN)
    \/ SparqlReturn
    \/ HybridRoot
    \/ HybridLevel
    \/ HybridReturn

Spec == Init /\ [][Next]_vars

---------------------------------------------------------------------------
(* Properties of a traversal (Spec)                                        *)

\* The popularity count the snapshot holds for an entity.
Popularity(q) == snapshot[q].sitelinks

Last(seq) == seq[Len(seq)]

Started == pc \notin {"idle", "main"}

\* C1: in every strategy and for every max_depth in {1,2,3}, every id of the
\* depth map has a depth of at most max_depth, and the start id has depth 0.
C1_DepthBounded ==
    Started =>
        /\ max_depth \in 1..3
        /\ start_qid \in DOMAIN depth_map
        /\ depth_map[start_qid] = 0
        /\ \A id \in DOMAIN depth_map : depth_map[id] \in 0..max_depth

\* C1 witness: a finished traversal holds a node at depth max_depth whose
\* own statements point to an entity that was never discovered: the bound
\* cut the traversal.
C1_Witness ==
    /\ pc = "done"
    /\ \E id \in DOMAIN depth_map :
          /\ depth_map[id] = max_depth
          /\ snapshot[id].statements # <<>>
          /\ \E i \in 1..Len(snapshot[id].statements) :
                /\ snapshot[id].statements[i].values[1].type = "item"
                /\ snapshot[id].statements[i].values[1].item \notin DOMAIN depth_map

\* The ids within k accepted edges of the start id.
RECURSIVE Within(_)
Within(k) ==
    IF k = 0 THEN {start_qid}
    ELSE LET near == Within(k - 1)
         IN  near \cup {edges[i][3] : i \in {j \in 1..Len(edges) : edges[j][1] \in near}}

\* C2: when a strategy has finished, the depth recorded for an id is the
\* length of the shortest path from the start id along accepted edges: no
\* accepted edge descends more than one level, every id but the start id is
\* the target of an accepted edge from exactly one level above, and the id
\* is within depth edges of the start id but not within depth - 1.
C2_ShortestPath ==
    pc = "done" =>
        /\ \A i \in 1..Len(edges) :
              /\ edges[i][1] \in DOMAIN depth_map
              /\ edges[i][3] \in DOMAIN depth_map
              /\ depth_map[edges[i][3]] <= depth_map[edges[i][1]] + 1
        /\ \A id \in DOMAIN depth_map \ {start_qid} :
              /\ \E i \in 1..Len(edges) :
                    /\ edges[i][3] = id
                    /\ depth_map[edges[i][1]] = depth_map[id] - 1
              /\ id \in Within(depth_map[id])
              /\ id \notin Within(depth_map[id] - 1)

\* C2 witness: a finished traversal holds an accepted edge whose target was
\* already known at the source's own level or above: the target is reached
\* by a longer path too, and keeps the shorter depth.
C2_Witness ==
    /\ pc = "done"
    /\ \E i \in 1..Len(edges) :
          /\ edges[i][3] # start_qid
          /\ edges[i][1] # start_qid
          /\ depth_map[edges[i][3]] <= depth_map[edges[i][1]]

\* C3, as claimed: in every strategy with a hub threshold T > 0, a node other
\* than the root whose popularity is at least T is in no frontier that is
\* about to be fetched and is the source of no accepted edge.
C3_HubsNeverExpanded ==
    (Started /\ config.max_entity_sitelinks > 0) =>
        \A id \in DOMAIN depth_map \ {start_qid} :
            Popularity(id) >= config.max_entity_sitelinks =>
                /\ (pc \in {"sparql", "hybrid"} /\ LevelsLeft(depth, max_depth))
                      => id \notin frontier
                /\ \A i \in 1..Len(edges) : edges[i][1] # id

\* The targets of the edges a step appended that were not visited before.
NewTargets ==
    {edges'[i][3] : i \in (Len(edges) + 1)..Len(edges')} \ visited

\* C7: in the batched strategy with threshold T > 0, a level adds every
\* target not visited before to visited and to the depth map at depth
\* current + 1, the next frontier is exactly the new targets whose
\* popularity is below T (0 when the row has none), and no hub other than
\* the root is the source of an edge.
C7_BatchedHubFilter ==
    [][(/\ pc = "sparql"
        /\ config.max_entity_sitelinks > 0
        /\ depth' = depth + 1)
       => /\ visited' = visited \cup NewTargets
          /\ DOMAIN depth_map' = DOMAIN depth_map \cup NewTargets
          /\ \A t \in NewTargets : depth_map'[t] = depth + 1
          /\ \A t \in DOMAIN depth_map : depth_map'[t] = depth_map[t]
          /\ frontier' = {t \in NewTargets :
                            Popularity(t) < config.max_entity_sitelinks}
          /\ \A i \in 1..Len(edges') :
                edges'[i][1] # start_qid =>
                    Popularity(edges'[i][1]) < config.max_entity_sitelinks]_vars

\* C7 witness: the batched strategy with T = 100 and max_depth >= 2 has
\* finished; a target of popularity 500 is at depth 1 and the source of no
\* edge, a sibling of popularity 10 or less is at depth 1 and the source of
\* an edge.
C7_Witness ==
    /\ pc = "done"
    /\ config.mode = "sparql"
    /\ config.max_entity_sitelinks = 100
    /\ max_depth >= 2
    /\ \E hub, sibling \in DOMAIN depth_map :
          /\ depth_map[hub] = 1
          /\ depth_map[sibling] = 1
          /\ Popularity(hub) = 500
          /\ Popularity(sibling) <= 10
          /\ snapshot[hub].statements # <<>>
          /\ \A i \in 1..Len(edges) : edges[i][1] # hub
          /\ \E i \in 1..Len(edges) : edges[i][1] = sibling

\* The properties of the root's record whose first statement is an item, in
\* the record's order.
ItemValuedProps ==
    LET st == snapshot[start_qid].statements
        IsItemValued(g) == g.values[1].type = "item"
        kept == SelectSeq(st, IsItemValued)
    IN  [i \in 1..Len(kept) |-> kept[i].prop]

\* The case of C8: the per-node or the hybrid strategy has finished a
\* traversal of depth 1 with a shallow cap of 3.
C8_Case ==
    /\ pc = "done"
    /\ config.mode \in {"rest", "hybrid"}
    /\ max_depth = 1
    /\ config.limit_relations = 3

\* What C8 states apart from the number of edges per node: one node at
\* depth 0, the start id; at most 3 nodes at depth 1; every edge leaves the
\* root with a property among the first 3 item-valued ones of its record.
C8_Shape ==
    /\ {id \in DOMAIN depth_map : depth_map[id] = 0} = {start_qid}
    /\ Cardinality({id \in DOMAIN depth_map : depth_map[id] = 1}) <= 3
    /\ \A id \in DOMAIN depth_map : depth_map[id] \in {0, 1}
    /\ \A i \in 1..Len(edges) :
          /\ edges[i][1] = start_qid
          /\ \E k \in 1..Min(3, Len(ItemValuedProps)) :
                edges[i][2] = ItemValuedProps[k]

\* The number of edges from the root to id.
EdgesFromRootTo(id) ==
    Cardinality({i \in 1..Len(edges) : edges[i][1] = start_qid /\ edges[i][3] = id})

BatchFailed(log) == \E k \in 1..Len(log) : log[k].kind = "sparql" /\ ~log[k].ok

\* C10: when the batched query for the frontier at depth d fails, the step
\* is one call without retry that leaves edges, depth map, labels and
\* visited as they were and empties the frontier, so that no node is deeper
\* than d; from then on no call is issued and nothing changes but the
\* traversal finishing.
C10_FailedBatchTruncates ==
    [][/\ (/\ Len(calls') > Len(calls)
           /\ Last(calls').kind = "sparql"
           /\ ~Last(calls').ok)
          => /\ Len(calls') = Len(calls) + 1
             /\ Last(calls').depth = depth
             /\ edges' = edges
             /\ depth_map' = depth_map
             /\ label_map' = label_map
             /\ visited' = visited
             /\ all_ids' = all_ids
             /\ frontier' = {}
             /\ pc' = pc
             /\ \A id \in DOMAIN depth_map' : depth_map'[id] <= depth
       /\ BatchFailed(calls)
          => /\ calls' = calls
             /\ edges' = edges
             /\ depth_map' = depth_map
             /\ label_map' = label_map
             /\ pc' = "done"]_vars

\* C10 witness: a traversal has finished after a batched query failed at a
\* depth of 1 or more, with the edges of the levels above kept, and a node
\* of the failed frontier has statements that were never fetched.
C10_Witness ==
    /\ pc = "done"
    /\ BatchFailed(calls)
    /\ Last(calls).depth >= 1
    /\ Last(calls).depth < max_depth
    /\ edges # <<>>
    /\ \E id \in Last(calls).ids : snapshot[id].statements # <<>>

---------------------------------------------------------------------------
(* Failed fetches, visited and the depth map (Spec)                        *)

\* The call a step issued first.
Issued == calls'[Len(calls) + 1]

\* C11: when the single-item fetch of a node returns no data, the per-node
\* strategy adds no edge and no depth-map entry, leaves every accumulator
\* as it was and goes on with the rest of the queue; the hybrid strategy,
\* whose root fetch it is, returns with no edge, a depth map holding the
\* start id at depth 0 alone, and no further call.
C11_FailedFetchSkips ==
    [][(/\ Len(calls') > Len(calls)
        /\ Issued.kind = "rest"
        /\ ~Issued.ok)
       => /\ Len(calls') = Len(calls) + 1
          /\ edges' = edges
          /\ depth_map' = depth_map
          /\ visited' = visited
          /\ all_ids' = all_ids
          /\ label_map' = label_map
          /\ IF pc = "rest"
             THEN /\ pc' = "rest"
                  /\ queue' = Tail(queue)
             ELSE /\ pc = "hybrid_root"
                  /\ pc' = "done"
                  /\ edges' = <<>>
                  /\ depth_map' = (start_qid :> 0)
                  /\ \A k \in 1..Len(calls') : calls'[k].kind # "sparql"]_vars

\* C11 witness: the per-node strategy has finished; the fetch of a node at
\* depth 1 or more failed and the next node of the queue was fetched and
\* gave edges.
C11_Witness ==
    /\ pc = "done"
    /\ config.mode = "rest"
    /\ \E k \in 1..(Len(calls) - 1) :
          /\ calls[k].kind = "rest"
          /\ ~calls[k].ok
          /\ calls[k].depth >= 1
          /\ calls[k + 1].kind = "rest"
          /\ calls[k + 1].ok
          /\ \E i \in 1..Len(edges) : edges[i][1] \in calls[k + 1].ids

\* The ids fetched as sources so far: by the single-item fetch or in a
\* batched query.
Expanded ==
    UNION {calls[k].ids : k \in {j \in 1..Len(calls) : calls[j].kind \in {"rest", "sparql"}}}

\* C18: in every state of every strategy visited is the key set of the depth
\* map, and the ids a step adds to them are the start id at initialisation
\* and otherwise exactly the targets of the edges the step accepted that
\* were not visited before: none of them is a source fetched in that step.
C18_VisitedIsDepthMapDomain ==
    [][Started'
       => /\ visited' = DOMAIN depth_map'
          /\ visited' \ visited =
                IF pc = "main" THEN {start_qid} ELSE NewTargets
          /\ pc # "main" =>
                \A k \in (Len(calls) + 1)..Len(calls') :
                    calls'[k].kind \in {"rest", "sparql"} =>
                        calls'[k].ids \cap (visited' \ visited) = {}]_vars

\* C18 witness: a finished traversal of three nodes or more holds a node in
\* visited and in the depth map that was never fetched as a source.
C18_Witness ==
    /\ pc = "done"
    /\ Cardinality(visited) >= 3
    /\ \E id \in visited : id \in DOMAIN depth_map /\ id \notin Expanded

\* C19: a depth-map entry never changes once it is there, whatever reaches
\* the id again later.
C19_FirstDiscoveryWins ==
    [][\A id \in DOMAIN depth_map :
          /\ id \in DOMAIN depth_map'
          /\ depth_map'[id] = depth_map[id]]_vars

\* C19 witness: a finished traversal accepted an edge back to the start id
\* from a node at depth 1 or more, and an edge into another node from a
\* source at that node's depth or deeper; the start id is at depth 0.
C19_Witness ==
    /\ pc = "done"
    /\ depth_map[start_qid] = 0
    /\ \E i \in 1..Len(edges) :
          /\ edges[i][3] = start_qid
          /\ depth_map[edges[i][1]] >= 1
    /\ \E i \in 1..Len(edges) :
          /\ edges[i][3] # start_qid
          /\ depth_map[edges[i][3]] <= depth_map[edges[i][1]]

\* The ids waiting in the queue of the per-node strategy.
Queued == {queue[k][1] : k \in 1..Len(queue)}

\* C20: no id is fetched as a source twice: the sets of ids of the fetches
\* are pairwise disjoint and within visited, the queue of the per-node
\* strategy holds no id twice and no id already fetched, and the frontier
\* of the batched strategies is within visited and holds no id already
\* fetched.
C20_ExpandedOnce ==
    Started =>
        /\ \A i, j \in 1..Len(calls) :
              (/\ i < j
               /\ calls[i].kind \in {"rest", "sparql"}
               /\ calls[j].kind \in {"rest", "sparql"})
              => calls[i].ids \cap calls[j].ids = {}
        /\ Expanded \subseteq visited
        /\ frontier \subseteq visited
        /\ frontier \cap Expanded = {}
        /\ Queued \subseteq visited
        /\ Queued \cap Expanded = {}
        /\ Cardinality(Queued) = Len(queue)

\* C20 witness: the batched strategy has fetched three levels of a graph
\* that leads back to the start id and to a node of an earlier level.
C20_Witness ==
    /\ pc = "done"
    /\ config.mode = "sparql"
    /\ Len(calls) = 3
    /\ \A k \in 1..3 : calls[k].ok
    /\ \E i \in 1..Len(edges) : edges[i][3] = start_qid
    /\ \E i \in 1..Len(edges) :
          /\ edges[i][3] # start_qid
          /\ depth_map[edges[i][3]] <= depth_map[edges[i][1]]

---------------------------------------------------------------------------
(* Hub suppression, caps and the edge list (Spec)                          *)

\* C21: with a hub threshold of 0 nothing is suppressed: in every strategy
\* each discovered node of a depth below max_depth waits in the queue or in
\* the frontier about to be fetched, or has been fetched, whatever its
\* popularity; when the traversal is done each of them has been fetched.
C21_NoSuppressionAtZero ==
    (Started /\ config.max_entity_sitelinks = 0) =>
        \A id \in DOMAIN depth_map :
            depth_map[id] < max_depth =>
                \/ id \in Expanded
                \/ pc = "rest" /\ id \in Queued
                \/ pc = "hybrid_root" /\ id = start_qid
                \/ /\ pc \in {"sparql", "hybrid"}
                   /\ id \in frontier
                   /\ depth = depth_map[id]
                   /\ LevelsLeft(depth, max_depth)

\* C21 witness: a traversal with threshold 0 is done; a node other than the
\* root with 500 sitelinks was fetched and is the source of an edge.
C21_Witness ==
    /\ pc = "done"
    /\ config.max_entity_sitelinks = 0
    /\ \E id \in DOMAIN depth_map \ {start_qid} :
          /\ Popularity(id) = 500
          /\ id \in Expanded
          /\ \E i \in 1..Len(edges) : edges[i][1] = id

\* The cap the configuration of the run gives a source of depth d.
ConfiguredCap(d) ==
    IF d = 0 THEN config.limit_relations ELSE config.limit_relations_deep

\* C22: in every strategy the cap of a source is the one the configuration
\* of the run gives its depth: every fetch is issued with the shallow cap
\* at depth 0 and the deep cap below, the start id is the source of at most
\* limit_relations accepted edges and any other id of at most
\* limit_relations_deep.
C22_CapsFromConfig ==
    Started =>
        /\ \A k \in 1..Len(calls) :
              calls[k].kind \in {"rest", "sparql"} =>
                  calls[k].limit = ConfiguredCap(calls[k].depth)
        /\ \A s \in DOMAIN depth_map :
              CountSource(edges, s) <= ConfiguredCap(depth_map[s])
        /\ \A i \in 1..Len(edges) : edges[i][1] \in DOMAIN depth_map

\* C22 witness: the per-node strategy is done under caps that differ from
\* the built-in ones; the root's record has more item-valued properties than
\* the shallow cap and exactly that many edges leave the root, and a deeper
\* node with more item-valued properties than the deep cap is the source of
\* exactly that many.
C22_Witness ==
    /\ pc = "done"
    /\ config.mode = "rest"
    /\ config.limit_relations = 3
    /\ config.limit_relations_deep = 1
    /\ Len(ItemValuedProps) > 3
    /\ CountSource(edges, start_qid) = 3
    /\ \E s \in DOMAIN depth_map \ {start_qid} :
          /\ Len(snapshot[s].statements) = 2
          /\ \A g \in 1..2 : snapshot[s].statements[g].values[1].type = "item"
          /\ CountSource(edges, s) = 1

\* The number of properties of an entity's record whose first statement is
\* an item.
ItemValuedCount(q) ==
    Cardinality({i \in 1..Len(snapshot[q].statements) :
                    snapshot[q].statements[i].values[1].type = "item"})

\* C23: in the per-node strategy with a threshold T > 0 a node is fetched
\* before it is tested, and the test reads the sitelinks of its own record:
\* a fetched node other than the root with T sitelinks or more adds no edge
\* and discovers no node, a fetched node below T and the fetched root
\* (whatever its count) add the relations of their record up to the cap;
\* no step removes an edge or a depth-map entry, so the edges into a hub
\* and its depth stay.
C23_PerNodeHubCheck ==
    [][(/\ pc = "rest"
        /\ config.max_entity_sitelinks > 0
        /\ Len(calls') > Len(calls)
        /\ Issued.kind = "rest")
       => LET current_qid == Head(queue)[1]
              current_depth == Head(queue)[2]
              hub == Popularity(current_qid) >= config.max_entity_sitelinks
          IN  /\ Issued.ids = {current_qid}
              /\ current_depth = 0 <=> current_qid = start_qid
              /\ SubSeq(edges', 1, Len(edges)) = edges
              /\ \A id \in DOMAIN depth_map :
                    id \in DOMAIN depth_map' /\ depth_map'[id] = depth_map[id]
              /\ (Issued.ok /\ current_depth > 0 /\ hub)
                    => /\ edges' = edges
                       /\ depth_map' = depth_map
                       /\ visited' = visited
                       /\ all_ids' = all_ids
                       /\ queue' = Tail(queue)
              /\ (Issued.ok /\ (current_depth = 0 \/ ~hub))
                    => /\ Len(edges') - Len(edges)
                            = Min(Issued.limit, ItemValuedCount(current_qid))
                       /\ \A i \in (Len(edges) + 1)..Len(edges') :
                             edges'[i][1] = current_qid]_vars

\* C23 witness: the per-node strategy with T = 100 is done; the root has 500
\* sitelinks and is the source of edges; another node with 500 sitelinks
\* and item-valued statements was fetched, is the target of an edge, is in
\* the depth map and is the source of no edge.
C23_Witness ==
    /\ pc = "done"
    /\ config.mode = "rest"
    /\ config.max_entity_sitelinks = 100
    /\ Popularity(start_qid) = 500
    /\ CountSource(edges, start_qid) >= 1
    /\ \E id \in DOMAIN depth_map \ {start_qid} :
          /\ Popularity(id) = 500
          /\ ItemValuedCount(id) >= 1
          /\ \E k \in 1..Len(calls) :
                calls[k].kind = "rest" /\ calls[k].ids = {id} /\ calls[k].ok
          /\ \E i \in 1..Len(edges) : edges[i][3] = id
          /\ CountSource(edges, id) = 0

\* The distinct targets of the accepted edges that leave the start id, the
\* start id itself excepted.
RootTargets ==
    {edges[i][3] : i \in {j \in 1..Len(edges) : edges[j][1] = start_qid}}
        \ {start_qid}

\* The calls of the hybrid strategy once the root has been dealt with: the
\* first call is the single-item fetch of the start id with the shallow cap
\* and there is no other single-item fetch; the batched calls are at most
\* one per depth 1 .. max_depth - 1, in order of depth, with the deep cap;
\* the first of them is for the root's targets; with max_depth = 1 there
\* is none.
HybridCallPattern ==
    LET batched == SelectSeq(calls, LAMBDA c : c.kind = "sparql")
        fetches == SelectSeq(calls, LAMBDA c : c.kind = "rest")
    IN  /\ Len(calls) >= 1
        /\ calls[1].kind = "rest"
        /\ calls[1].ids = {start_qid}
        /\ calls[1].limit = config.limit_relations
        /\ Len(fetches) = 1
        /\ Len(batched) <= max_depth - 1
        /\ max_depth = 1 => Len(batched) = 0
        /\ \A k \in 1..Len(batched) :
              /\ batched[k].depth = k
              /\ batched[k].limit = config.limit_relations_deep
        /\ Len(batched) >= 1 => batched[1].ids = RootTargets
        /\ (pc = "hybrid" /\ Len(batched) = 0) =>
              /\ frontier = RootTargets
              /\ depth = 1

C26_EdgesWithinDepthMap ==
    Started =>
        /\ \A i \in 1..Len(edges) :
              /\ edges[i][1] \in DOMAIN depth_map
              /\ edges[i][3] \in DOMAIN depth_map
              /\ depth_map[edges[i][1]] < max_depth
              /\ {edges[i][1], edges[i][2], edges[i][3]} \subseteq all_ids
        /\ \A id \in Expanded :
              id \in DOMAIN depth_map /\ depth_map[id] < max_depth

\* C26 witness: a finished traversal of depth 3 holds an edge from a node of
\* depth 2 to a node of depth 3 that has item-valued statements and was
\* never fetched.
C26_Witness ==
    /\ pc = "done"
    /\ max_depth = 3
    /\ \E i \in 1..Len(edges) :
          /\ depth_map[edges[i][1]] = 2
          /\ depth_map[edges[i][3]] = 3
          /\ ItemValuedCount(edges[i][3]) >= 1
          /\ edges[i][3] \notin Expanded
          /\ CountSource(edges, edges[i][3]) = 0

\* C27: in the per-node strategy no (source, property, target) triple is in
\* the edge list twice, and no source has two edges with one property.
C27_PerNodeNoDuplicateTriple ==
    (Started /\ config.mode = "rest") =>
        \A i, j \in 1..Len(edges) :
            (edges[i][1] = edges[j][1] /\ edges[i][2] = edges[j][2]) => i = j

\* C27 witness: the per-node strategy is done with a traversal of depth 3;
\* two edges with different properties join the same two nodes, and an edge
\* leads back to the start id, which was not fetched again.
C27_Witness ==
    /\ pc = "done"
    /\ config.mode = "rest"
    /\ max_depth = 3
    /\ \E i, j \in 1..Len(edges) :
          /\ i # j
          /\ edges[i][1] = edges[j][1]
          /\ edges[i][3] = edges[j][3]
    /\ \E i \in 1..Len(edges) :
          edges[i][3] = start_qid /\ depth_map[edges[i][1]] = 1

---------------------------------------------------------------------------
(* SpecLive: a traversal that keeps running                                *)

\* The program is one thread and every external call blocks until it
\* returns or times out: while a step is possible, one is taken.
SpecLive == Init /\ [][Next]_vars /\ WF_vars(Next)

\* The batched calls are one per depth, in order, each for a frontier that is
\* not empty: from depth 0 in the batched strategy, from depth 1 in the
\* hybrid one, and below max_depth; the single-item fetches of the per-node
\* strategy are for ids discovered at a depth below max_depth, each id at
\* most once, and so are the entries of its queue.
CallsBounded ==
    LET batched == SelectSeq(calls, LAMBDA c : c.kind = "sparql")
        fetches == SelectSeq(calls, LAMBDA c : c.kind = "rest")
        base == IF config.mode = "hybrid" THEN 1 ELSE 0
    IN  /\ Len(batched) <= max_depth - base
        /\ \A k \in 1..Len(batched) :
              /\ batched[k].depth = base + k - 1
              /\ batched[k].depth < max_depth
              /\ batched[k].ids # {}
        /\ \A k \in 1..Len(fetches) :
              /\ fetches[k].depth < max_depth
              /\ fetches[k].depth = depth_map[CHOOSE id \in fetches[k].ids : TRUE]
              /\ \A j \in 1..Len(fetches) : fetches[j].ids = fetches[k].ids => j = k
        /\ \A k \in 1..Len(queue) :
              /\ queue[k][2] < max_depth
              /\ queue[k][2] = depth_map[queue[k][1]]

\* C17: every strategy reaches DONE, whatever the graph and whichever calls
\* fail; on the way the calls stay within their bounds, and a batched loop
\* whose frontier is empty returns without a further call.
C17_Terminates ==
    /\ <>(pc = "done")
    /\ [](Started => CallsBounded)
    /\ [][(pc \in {"sparql", "hybrid"} /\ frontier = {})
            => (pc' = "done" /\ calls' = calls)]_vars

\* C17 witness: the per-node strategy is done with a traversal of depth 3
\* over a graph with an edge back to the start id in which a fetch failed.
C17_Witness ==
    /\ pc = "done"
    /\ config.mode = "rest"
    /\ max_depth = 3
    /\ \E i \in 1..Len(edges) : edges[i][3] = start_qid /\ edges[i][1] # start_qid
    /\ \E k \in 1..Len(calls) : calls[k].kind = "rest" /\ ~calls[k].ok
    /\ Len(calls) >= 4

---------------------------------------------------------------------------
(* SpecTwice: the batched strategy run twice against one snapshot          *)

TwiceInit == Init /\ config.mode = "sparql"

\* A list as an unordered multiset: each element with its number of
\* occurrences.
BagOf(seq) ==
    [x \in {seq[i] : i \in 1..Len(seq)} |->
        Cardinality({i \in 1..Len(seq) : seq[i] = x})]

\* main is entered again with the same term and configuration: what the
\* first run returned (its edges as a multiset) is kept aside for
\* comparison.
Rerun ==
    /\ pc = "done"
    /\ run = 1
    /\ run' = 2
    /\ first' = [edges |-> BagOf(edges), depth_map |-> depth_map, calls |-> calls]
    /\ Start
    /\ UNCHANGED <<worldVars, labelVars, fetchVars, parseVars, entryVars>>

\* Both runs are answered: no query fails or times out.
TwiceNext ==
    \/ Main
    \/ SparqlLevel({TRUE})
    \/ SparqlReturn
    \/ Rerun

SpecTwice == TwiceInit /\ [][TwiceNext]_vars

TwiceDone == run = 2 /\ pc = "done"

\* No row of the queries of a run was discarded: every fetched source has at
\* most as many matching rows as the cap of its query, and the matching
\* rows of each query fit the 100 rows per source of its LIMIT.
NothingDiscarded(log) ==
    \A k \in 1..Len(log) :
        log[k].kind = "sparql" =>
            /\ \A s \in log[k].ids :
                  Len(MatchingRows(snapshot, {s}, 1)) <= log[k].limit
            /\ Len(MatchingRows(snapshot, log[k].ids, 1))
                  <= RowBudget * Cardinality(log[k].ids)

---------------------------------------------------------------------------
(* SpecLabels: one call of resolve_labels                                  *)

\* The largest number of ids handed to resolve_labels.
MaxIds == 120

\* list(qids) of the ids Q(1) .. Q(n): in ascending or in descending order.
IdLists ==
    UNION {{[k \in 1..n |-> Q(k)], [k \in 1..n |-> Q(n + 1 - k)]} : n \in 0..MaxIds}

LabelsInit ==
    /\ l_pc = "loop"
    /\ l_list \in IdLists
    /\ l_unlabelled \in {{}, {Q(1), Q(ChunkSize + 1)}}
    /\ l_i = 0
    /\ l_mapping = EmptyMap
    /\ l_calls = <<>>
    /\ snapshot = EmptyMap
    /\ config = EmptyMap
    /\ LIMIT_RELATIONS = 20
    /\ LIMIT_RELATIONS_DEEP = 5
    /\ EngineIdle
    /\ FetchIdle
    /\ ParseIdle
    /\ EntryIdle

\* One iteration of the loop of resolve_labels: the request for the batch at
\* offset i succeeds or raises.
ResolveStep ==
    /\ l_pc = "loop"
    /\ l_i < Len(l_list)
    /\ \E ok \in BOOLEAN :
          /\ l_mapping' = ResolveChunk(l_mapping, ChunkOf(l_list, l_i), ok, l_unlabelled)
          /\ l_calls' = Append(l_calls, [batch |-> ChunkOf(l_list, l_i), ok |-> ok])
    /\ l_i' = l_i + ChunkSize
    /\ UNCHANGED <<l_pc, l_list, l_unlabelled>>
    /\ UNCHANGED <<worldVars, globalVars, engineVars, twiceVars, fetchVars,
                   parseVars, entryVars>>

\* The loop is over (or qids was empty) and the mapping is returned.
ResolveReturn ==
    /\ l_pc = "loop"
    /\ l_i >= Len(l_list)
    /\ l_pc' = "done"
    /\ UNCHANGED <<l_list, l_unlabelled, l_i, l_mapping, l_calls>>
    /\ UNCHANGED <<worldVars, globalVars, engineVars, twiceVars, fetchVars,
                   parseVars, entryVars>>

LabelsNext == ResolveStep \/ ResolveReturn

SpecLabels == LabelsInit /\ [][LabelsNext]_vars

\* The batches of a list of requests, joined in order.
RECURSIVE Joined(_, _)
Joined(requests, k) ==
    IF k > Len(requests) THEN <<>>
    ELSE requests[k].batch \o Joined(requests, k + 1)

\* The mapping a request for the k-th slice of 50 ids of the list, issued by
\* hand, yields.
ManualCall(k) ==
    LET from == ChunkSize * (k - 1) + 1
        to == Min(ChunkSize * k, Len(l_list))
    IN  [qid \in {l_list[j] : j \in from..to} |->
            IF qid \in l_unlabelled THEN qid ELSE LabelOf(qid)]

\* C9: resolve_labels on n ids issues ceil(n/50) requests of at most 50 ids
\* each, the batches being the list cut into consecutive slices; when every
\* request succeeds the mapping returned is the union of the mappings of
\* those requests issued by hand.
C9_Chunking ==
    l_pc = "done" =>
        /\ Len(l_calls) = (Len(l_list) + ChunkSize - 1) \div ChunkSize
        /\ \A k \in 1..Len(l_calls) : Len(l_calls[k].batch) \in 1..ChunkSize
        /\ Joined(l_calls, 1) = l_list
        /\ (\A k \in 1..Len(l_calls) : l_calls[k].ok) =>
              /\ DOMAIN l_mapping = UNION {DOMAIN ManualCall(k) : k \in 1..Len(l_calls)}
              /\ \A k \in 1..Len(l_calls) : \A qid \in DOMAIN ManualCall(k) :
                    l_mapping[qid] = ManualCall(k)[qid]

\* C9 witness: 120 ids were resolved by three successful requests of 50, 50
\* and 20 ids.
C9_Witness ==
    /\ l_pc = "done"
    /\ Len(l_list) = 120
    /\ Len(l_calls) = 3
    /\ Len(l_calls[1].batch) = 50
    /\ Len(l_calls[2].batch) = 50
    /\ Len(l_calls[3].batch) = 20
    /\ \A k \in 1..3 : l_calls[k].ok

\* The ids of the requests that succeeded.
Answered ==
    UNION {{l_calls[k].batch[j] : j \in 1..Len(l_calls[k].batch)} :
             k \in {i \in 1..Len(l_calls) : l_calls[i].ok}}

\* C12: a failed request changes nothing and the loop goes on; at the end
\* every chunk of the list has been requested, the keys of the mapping are
\* the ids of the chunks whose request succeeded, each with the entry its
\* request gave, and the ids of a failed chunk have no entry.
C12_FailedChunkSkipped ==
    /\ l_pc = "loop" =>
          /\ Len(l_calls) = l_i \div ChunkSize
          /\ DOMAIN l_mapping = Answered
    /\ l_pc = "done" =>
          /\ Len(l_calls) = (Len(l_list) + ChunkSize - 1) \div ChunkSize
          /\ DOMAIN l_mapping = Answered
          /\ \A k \in 1..Len(l_calls) :
                LET from == ChunkSize * (k - 1) + 1
                    to == Min(ChunkSize * k, Len(l_list))
                IN  \A j \in from..to :
                      IF l_calls[k].ok
                      THEN /\ l_list[j] \in DOMAIN l_mapping
                           /\ l_mapping[l_list[j]] = ManualCall(k)[l_list[j]]
                      ELSE l_list[j] \notin DOMAIN l_mapping

\* C12 witness: of the three requests for 120 ids the second failed and the
\* others succeeded: the mapping returned has the 70 entries of the first
\* and the third chunk.
C12_Witness ==
    /\ l_pc = "done"
    /\ Len(l_list) = 120
    /\ Len(l_calls) = 3
    /\ l_calls[1].ok
    /\ ~l_calls[2].ok
    /\ l_calls[3].ok
    /\ Cardinality(DOMAIN l_mapping) = 70

\* The ids of the list the external source has no label for.
UnlabelledIds == {l_list[j] : j \in 1..Len(l_list)} \cap l_unlabelled

\* C13, as claimed: an id for which the external source has no label is
\* absent from the mapping resolve_labels returns.
C13_UnlabelledAbsent ==
    l_pc = "done" => \A qid \in UnlabelledIds : qid \notin DOMAIN l_mapping

\* C13, amended: an id without a label is a key of the mapping returned
\* exactly when the request of its chunk succeeded, and is then mapped to
\* the id itself; an id with a label is never mapped to itself.
C13_UnlabelledMapToThemselves ==
    l_pc = "done" =>
        /\ \A qid \in UnlabelledIds :
              /\ qid \in DOMAIN l_mapping <=> qid \in Answered
              /\ qid \in DOMAIN l_mapping => l_mapping[qid] = qid
        /\ \A qid \in DOMAIN l_mapping \ UnlabelledIds : l_mapping[qid] # qid

\* C13 witness: two requests succeeded for a list of 51 ids or more, each
\* of whose chunks holds an id without a label; both ids are mapped to
\* themselves.
C13_Witness ==
    /\ l_pc = "done"
    /\ Len(l_calls) >= 2
    /\ \A k \in 1..Len(l_calls) : l_calls[k].ok
    /\ UnlabelledIds = {Q(1), Q(ChunkSize + 1)}
    /\ l_mapping[Q(1)] = Q(1)
    /\ l_mapping[Q(ChunkSize + 1)] = Q(ChunkSize + 1)

---------------------------------------------------------------------------
(* SpecParse: one call of parse_entity_relations                           *)

\* The largest number of properties of a record handed to the parser.
MaxProps == 3

\* A string that is no id, by its first character and the rest: ids are
\* pairs, other strings are triples.
Text(initial, rest) == <<initial, rest, "text">>

\* What the first statement of a property can hold, as the item endpoint
\* encodes it in claim['value']['content']: an item is the bare id string, a
\* string-typed value is the bare string (a name, a URL), a time or a
\* quantity is a dict without 'id', and a structured value can expose an
\* 'id'.
ContentKinds == {"item", "name", "url", "time", "structured"}

ContentOf(kind, i) ==
    CASE kind = "item" -> [kind |-> "str", text |-> Q(i), id |-> <<>>]
      [] kind = "name" -> [kind |-> "str", text |-> Text("Q", "uantum mechanics"), id |-> <<>>]
      [] kind = "url" -> [kind |-> "str", text |-> Text("h", "ttp://example.org"), id |-> <<>>]
      [] kind = "time" -> [kind |-> "dict", text |-> <<>>, id |-> <<>>]
      [] OTHER -> [kind |-> "dict", text |-> <<>>, id |-> Q(i)]

\* The claim group of property P(i): a first statement of the given kind,
\* followed or not by a second statement holding another item.
ClaimGroupOf(kind, twofold, i) ==
    IF twofold
    THEN <<[content |-> ContentOf(kind, i)], [content |-> ContentOf("item", i + 10)]>>
    ELSE <<[content |-> ContentOf(kind, i)]>>

\* The records handed to the parser: up to m properties P(1), P(2), .. in
\* native order.
ParseRecords(m) ==
    UNION {{[statements |->
                [i \in 1..n |->
                    [prop_id |-> P(i),
                     claim_group |-> ClaimGroupOf(shape[i][1], shape[i][2], i)]]] :
              shape \in [1..n -> ContentKinds \X BOOLEAN]} :
           n \in 0..m}

ParseInit ==
    /\ p_pc = "call"
    /\ p_data \in ParseRecords(MaxProps)
    /\ p_limit \in 0..MaxProps
    /\ p_result = EmptyRelations
    /\ snapshot = EmptyMap
    /\ config = EmptyMap
    /\ LIMIT_RELATIONS = 20
    /\ LIMIT_RELATIONS_DEEP = 5
    /\ EngineIdle
    /\ LabelsIdle
    /\ FetchIdle
    /\ EntryIdle

ParseCall ==
    /\ p_pc = "call"
    /\ p_result' = parse_entity_relations(p_data, p_limit)
    /\ p_pc' = "done"
    /\ UNCHANGED <<p_data, p_limit>>
    /\ UNCHANGED <<worldVars, globalVars, engineVars, twiceVars, labelVars,
                   fetchVars, entryVars>>

ParseNext == ParseCall

SpecParse == ParseInit /\ [][ParseNext]_vars

\* A string that matches the entity-id pattern: Q and a number.
IsEntityId(text) == Len(text) = 2 /\ text[1] = "Q"

\* The first statement of a claim group is an entity reference: a bare id
\* string, or a structured value with an id.
Qualifies(group) ==
    LET c == group.claim_group[1].content
    IN  \/ c.kind = "str" /\ IsEntityId(c.text)
        \/ c.kind = "dict" /\ c.id # <<>>

\* The id an entity reference refers to.
ReferredId(group) ==
    LET c == group.claim_group[1].content
    IN  IF c.kind = "str" THEN c.text ELSE c.id

\* C14, as claimed: the pairs kept are (property id, target id) of the first
\* limit properties, in native order, whose first statement is an entity
\* reference, one pair per property; a property whose first value is no
\* entity reference is skipped and does not count toward the limit; the
\* ids to resolve are the ids of those pairs.
C14_FirstQualifying ==
    p_pc = "done" =>
        LET qualifying == SelectSeq(p_data.statements, Qualifies)
            kept == Min(p_limit, Len(qualifying))
        IN  /\ Len(p_result.raw_relations) = kept
            /\ \A k \in 1..kept :
                  p_result.raw_relations[k] =
                      <<qualifying[k].prop_id, ReferredId(qualifying[k])>>
            /\ p_result.ids_to_resolve =
                  UNION {{qualifying[k].prop_id, ReferredId(qualifying[k])} :
                           k \in 1..kept}

---------------------------------------------------------------------------
(* SpecEntry: the entry points main, api_search and api_traverse           *)

\* What the caller types or sends is a sequence of tokens: blanks and
\* words; an id is a word.
Space == <<" ", 0>>

Word(w) == <<w, 0>>

RECURSIVE StripLeft(_)
StripLeft(str) ==
    IF str # <<>> /\ Head(str) = Space THEN StripLeft(Tail(str)) ELSE str

RECURSIVE StripRight(_)
StripRight(str) ==
    IF str # <<>> /\ str[Len(str)] = Space
    THEN StripRight(SubSeq(str, 1, Len(str) - 1))
    ELSE str

\* A mutant of Strip: blanks are kept.
StripNothing(str) == str

\* str.strip()
Strip(str) == StripRight(StripLeft(str))

\* The term the search endpoint has a match for, and one it has none for.
KnownTerm == Word("Ada Lovelace")

UnknownTerm == Word("zzzz")

\* An id the external source does not hold.
UnknownQid == Q(0)

Terms ==
    {<<>>, <<Space>>, <<KnownTerm>>, <<Space, KnownTerm, Space>>, <<UnknownTerm>>}

QidStrings ==
    {<<>>, <<Space>>, <<start_qid>>, <<Space, start_qid, Space>>, <<UnknownQid>>}

\* data.get("search", []) of the search endpoint's answer for a term.
SearchAnswer(term) ==
    IF term \in {<<KnownTerm>>, <<Space, KnownTerm, Space>>}
    THEN <<[id |-> start_qid, label |-> start_label]>>
    ELSE <<>>

\* search_entity(term): the candidates, [] when the request fails.
search_entity(term, ok) == IF ok THEN SearchAnswer(term) ELSE <<>>

\* candidates[index] raises no IndexError
Indexable(seq, index) == -Len(seq) <= index /\ index < Len(seq)

\* candidates[index], a negative index counting from the end
ItemAt(seq, index) ==
    IF index >= 0 THEN seq[index + 1] ELSE seq[Len(seq) + index + 1]

Modes == {"rest", "sparql", "hybrid"}

\* The depths a caller asks for: below, within and above the range.
DepthRequests == 0..4

\* load_config's result: a known or an unknown mode, and a depth or None.
EntryConfigs ==
    LET bases == [mode : Modes \cup {"turbo"},
                  limit_relations : {3},
                  limit_relations_deep : {1},
                  max_entity_sitelinks : {0}]
    IN  bases \cup {[depth |-> d] @@ b : d \in DepthRequests, b \in bases}

EntrySnapshots ==
    {w \in Snapshots :
        /\ w[Q(1)].statements =
             <<Group(P(2), <<ItemValue(Q(2))>>), Group(P(4), <<ItemValue(Q(3))>>)>>
        /\ w[Q(2)].sitelinks = 10
        /\ w[Q(3)].sitelinks = 0
        /\ w[Q(4)].statements = <<>>}

\* The entry point taken, with what the caller types (main) or sends (the
\* two routes).
Entries ==
    [point : {"main"}, term : Terms,
     selection : {TypedNumber(n) : n \in 0..2} \cup {TypedText},
     depth_input : {TypedNumber(d) : d \in DepthRequests} \cup {TypedText}]
    \cup [point : {"api_search"}, term : Terms]
    \cup [point : {"api_traverse"}, qid : QidStrings, label : {start_label}]

\* traverse.py run as a script has its globals at their defaults; app.py
\* sets them from the configuration when it is loaded.
EntryInit ==
    /\ snapshot \in EntrySnapshots
    /\ config \in EntryConfigs
    /\ entry \in Entries
    /\ response = NoResponse
    /\ LIMIT_RELATIONS = IF entry.point = "main" THEN 20 ELSE config.limit_relations
    /\ LIMIT_RELATIONS_DEEP =
         IF entry.point = "main" THEN 5 ELSE config.limit_relations_deep
    /\ pc = "entry"
    /\ max_depth = 0
    /\ edges = <<>>
    /\ all_ids = {}
    /\ depth_map = EmptyMap
    /\ label_map = EmptyMap
    /\ visited = {}
    /\ frontier = {}
    /\ depth = 0
    /\ queue = <<>>
    /\ calls = <<>>
    /\ run = 1
    /\ first = NoRun
    /\ LabelsIdle
    /\ FetchIdle
    /\ ParseIdle

\* main up to the choice of the start entity: the globals are set, the mode
\* is checked, the term is searched for and a candidate is selected.
MainEntry ==
    /\ pc = "entry"
    /\ entry.point = "main"
    /\ LIMIT_RELATIONS' = config.limit_relations
    /\ LIMIT_RELATIONS_DEEP' = config.limit_relations_deep
    /\ IF config.mode \notin Modes
       THEN /\ response' = Answer("unknown mode", <<>>, <<>>, <<>>)
            /\ pc' = "done"
       ELSE \E ok \in BOOLEAN :
            LET candidates == search_entity(entry.term, ok)
                index == entry.selection.value - 1
            IN  IF candidates = <<>>
                THEN /\ response' = Answer("no results", <<entry.term>>, <<>>, <<>>)
                     /\ pc' = "done"
                ELSE IF ~entry.selection.numeric \/ ~Indexable(candidates, index)
                THEN /\ response' =
                          Answer("invalid selection", <<entry.term>>, <<>>, <<>>)
                     /\ pc' = "done"
                ELSE /\ response' =
                          Answer("selected", <<entry.term>>,
                                 <<ItemAt(candidates, index).id>>, <<>>)
                     /\ pc' = "main"
    /\ UNCHANGED <<max_depth, edges, all_ids, depth_map, label_map, visited,
                   frontier, depth, queue, calls>>
    /\ UNCHANGED <<worldVars, twiceVars, labelVars, fetchVars, parseVars, entry>>

\* The route /api/search.
ApiSearch ==
    /\ pc = "entry"
    /\ entry.point = "api_search"
    /\ LET term == Strip(entry.term)
       IN  IF term = <<>>
           THEN response' = Answer("400", <<>>, <<>>, <<>>)
           ELSE \E ok \in BOOLEAN :
                LET candidates == search_entity(term, ok)
                IN  response' =
                       Answer("200", <<term>>,
                              [i \in 1..Len(candidates) |-> candidates[i].id], <<>>)
    /\ pc' = "done"
    /\ UNCHANGED <<max_depth, edges, all_ids, depth_map, label_map, visited,
                   frontier, depth, queue, calls>>
    /\ UNCHANGED <<worldVars, globalVars, twiceVars, labelVars, fetchVars,
                   parseVars, entry>>

\* The loop of api_traverse over raw_relations from relation i on: a node
\* for each target not seen before, an edge for each relation.
RECURSIVE ApiGraph(_, _, _, _, _)
ApiGraph(acc, raw_relations, i, qid, labels) ==
    IF i > Len(raw_relations) THEN acc
    ELSE LET prop_id    == raw_relations[i][1]
             target_qid == raw_relations[i][2]
             edge == [source |-> qid, target |-> target_qid,
                      label |-> Get(labels, prop_id, prop_id),
                      property |-> prop_id]
             node == [id |-> target_qid,
                      label |-> Get(labels, target_qid, target_qid),
                      depth |-> 1, sitelinks |-> 0]
         IN  ApiGraph(
                IF target_qid \notin acc.seen_nodes
                THEN [nodes |-> Append(acc.nodes, node),
                      edges |-> Append(acc.edges, edge),
                      seen_nodes |-> acc.seen_nodes \cup {target_qid}]
                ELSE [acc EXCEPT !.edges = Append(acc.edges, edge)],
                raw_relations, i + 1, qid, labels)

\* The route /api/traverse.
ApiTraverse ==
    /\ pc = "entry"
    /\ entry.point = "api_traverse"
    /\ LET stripped == Strip(entry.qid)
       IN  IF stripped = <<>>
           THEN /\ response' = Answer("400", <<>>, <<>>, <<>>)
                /\ calls' = calls
           ELSE \E ok \in BOOLEAN :
                LET qid == stripped[1]
                    entity_data == get_entity_rest(qid, ok)
                    fetched == Call("rest", {qid}, config.limit_relations, 0, ok)
                IN  IF Falsy(entity_data)
                    THEN /\ response' = Answer("500", <<>>, <<>>, <<>>)
                         /\ calls' = Append(calls, fetched)
                    ELSE \E labels_ok \in BOOLEAN :
                         LET parsed == parse_entity_relations(
                                          entity_data, config.limit_relations)
                             ids == parsed.ids_to_resolve \cup {qid}
                             resolved == resolve_labels(ListOf(ids), <<labels_ok>>,
                                                        Unlabelled \cup {UnknownQid})
                             labels == IF qid \in DOMAIN resolved THEN resolved
                                       ELSE Put(resolved, qid, entry.label)
                             root == [id |-> qid,
                                      label |-> Get(labels, qid, entry.label),
                                      depth |-> 0,
                                      sitelinks |-> Cardinality(entity_data.sitelinks)]
                             graph == ApiGraph(
                                        [nodes |-> <<root>>, edges |-> <<>>,
                                         seen_nodes |-> {qid}],
                                        parsed.raw_relations, 1, qid, labels)
                         IN  /\ response' = Answer("200", <<>>, graph.nodes, graph.edges)
                             /\ calls' = Append(Append(calls, fetched),
                                                Call("labels", ids, 0, 0, labels_ok))
    /\ pc' = "done"
    /\ UNCHANGED <<max_depth, edges, all_ids, depth_map, label_map, visited,
                   frontier, depth, queue>>
    /\ UNCHANGED <<worldVars, globalVars, twiceVars, labelVars, fetchVars,
                   parseVars, entry>>

EntryNext ==
    \/ MainEntry
    \/ ApiSearch
    \/ ApiTraverse
    \/ Main
    \/ RestStep
    \/ RestReturn
    \/ SparqlLevel(BOOLEAN)
    \/ SparqlReturn
    \/ HybridRoot
    \/ HybridLevel
    \/ HybridReturn

SpecEntry == EntryInit /\ [][EntryNext]_vars

\* A string of blanks only, the empty string included.
IsBlank(str) == \A i \in 1..Len(str) : str[i] = Space

\* The word of a string that is not blank.
WordOf(str) == CHOOSE t \in {str[i] : i \in 1..Len(str)} : t # Space

\* No fetch, query or label lookup was issued and no traversal state exists.
NoTraversalWork ==
    /\ calls = <<>>
    /\ max_depth = 0
    /\ edges = <<>>
    /\ all_ids = {}
    /\ depth_map = EmptyMap
    /\ label_map = EmptyMap
    /\ visited = {}
    /\ frontier = {}
    /\ queue = <<>>

\* An unknown mode, a blank search term sent to the search route, a blank
\* start id sent to the traverse route.
RejectedUpFront ==
    \/ entry.point = "main" /\ config.mode \notin Modes
    \/ entry.point = "api_search" /\ IsBlank(entry.term)
    \/ entry.point = "api_traverse" /\ IsBlank(entry.qid)

\* main found no candidate for the term (blank, unmatched, or the search
\* failed), or the selection typed names none.
RejectedAfterSearch ==
    /\ entry.point = "main"
    /\ response.status \in {"no results", "invalid selection"}

\* The start id sent to the traverse route is one the external source does
\* not hold.
UnresolvableStart ==
    /\ entry.point = "api_traverse"
    /\ ~IsBlank(entry.qid)
    /\ WordOf(entry.qid) \notin DOMAIN snapshot

AskedDepth ==
    IF "depth" \in DOMAIN config THEN config.depth
    ELSE IF entry.depth_input.numeric THEN entry.depth_input.value
    ELSE 1

\* C16: the max depth main hands to the strategy is the asked depth brought
\* into 1..3: 1 for a depth below 1, 3 for a depth above 3, the depth itself
\* in between, and 1 for a typed input that is no numeral.
C16_DepthClamped ==
    (entry.point = "main" /\ response.status = "selected" /\ pc # "main")
    => /\ max_depth \in 1..3
       /\ AskedDepth < 1 => max_depth = 1
       /\ AskedDepth > 3 => max_depth = 3
       /\ AskedDepth \in 1..3 => max_depth = AskedDepth
       /\ ("depth" \notin DOMAIN config /\ ~entry.depth_input.numeric)
             => max_depth = 1

\* C16 witness: no depth is configured, the caller typed a number above 3,
\* and the traversal ran with max depth 3 and found edges.
C16_Witness ==
    /\ entry.point = "main"
    /\ pc = "done"
    /\ "depth" \notin DOMAIN config
    /\ entry.depth_input.numeric
    /\ entry.depth_input.value > 3
    /\ max_depth = 3
    /\ edges # <<>>

---------------------------------------------------------------------------
(* SpecFetch: one call of sparql_fetch_level against a snapshot            *)

\* The longest snapshot enumerated row by row.
MaxRows == 3

SourceA == Q(1)

SourceB == Q(2)

\* The rows a small snapshot is made of.
SmallRows ==
    {Binding(s, P(1), Q(3), Numeral(500), TRUE) : s \in {SourceA, SourceB}}
    \cup {Binding(s, P(1), Q(4), <<>>, TRUE) : s \in {SourceA, SourceB}}
    \cup {Binding(SourceA, P(2), Q(5), NotANumeral, FALSE)}

SmallSnapshots == UNION {[1..n -> SmallRows] : n \in 0..MaxRows}

\* A prolific source: n rows of source s, each with a target of its own.
Block(s, n) == [i \in 1..n |-> Binding(s, P(1), Q(1000 * s[2] + i), <<>>, TRUE)]

\* Snapshots in which source A alone has as many rows as the whole LIMIT of
\* a two-source query, or one row fewer, and source B has nB rows.
LargeSnapshots ==
    {Block(SourceA, nA) \o Block(SourceB, nB) :
        nA \in {2 * RowBudget - 1, 2 * RowBudget}, nB \in {0, 1, 25}}

SourcesOf(matching) == {LastSegment(matching[i].source) : i \in 1..Len(matching)}

FetchInit ==
    /\ f_pc = "call"
    /\ f_matching \in SmallSnapshots \cup LargeSnapshots
    /\ f_sources \in {S \in SUBSET {SourceA, SourceB} : SourcesOf(f_matching) \subseteq S}
    /\ f_limit \in {1, 2, 20}
    /\ f_ok = FALSE
    /\ f_bindings = <<>>
    /\ f_result = EmptyResult
    /\ snapshot = EmptyMap
    /\ config = EmptyMap
    /\ LIMIT_RELATIONS = 20
    /\ LIMIT_RELATIONS_DEEP = 5
    /\ EngineIdle
    /\ LabelsIdle
    /\ ParseIdle
    /\ EntryIdle

\* The call: the query is sent (unless there is no source), the service
\* answers with rows or the request fails, and the rows are processed.
FetchCall ==
    /\ f_pc = "call"
    /\ \E ok \in BOOLEAN :
       \E rows \in ServiceOrders(f_matching, TotalLimit(f_sources)) :
          /\ f_ok' = (ok /\ f_sources # {})
          /\ f_bindings' = IF ok /\ f_sources # {} THEN rows ELSE <<>>
          /\ f_result' = sparql_fetch_level(f_sources, f_limit, ok, rows)
    /\ f_pc' = "done"
    /\ UNCHANGED <<f_sources, f_limit, f_matching>>
    /\ UNCHANGED <<worldVars, globalVars, engineVars, twiceVars, labelVars,
                   parseVars, entryVars>>

FetchNext == FetchCall

SpecFetch == FetchInit /\ [][FetchNext]_vars

\* The (source, property, target) triples of a list of rows, in order.
Triples(bindings) ==
    [i \in 1..Len(bindings) |->
        <<LastSegment(bindings[i].source), LastSegment(bindings[i].prop),
          LastSegment(bindings[i].target)>>]

\* The entries of a list of edges whose source is s, in order.
FromSource(edgeList, s) ==
    LET IsFrom(e) == e[1] = s IN SelectSeq(edgeList, IsFrom)

\* The positions of the returned rows that are within their source's quota:
\* fewer than cap rows of the same source come before.
KeptRows(bindings, cap) ==
    {i \in 1..Len(bindings) :
        Cardinality({j \in 1..(i - 1) : bindings[j].source = bindings[i].source}) < cap}

\* C4: after one batched fetch no source has more accepted edges than the
\* cap handed to the fetcher, whatever rows the service returned and in
\* whatever order; the edges accepted for a source are its first rows in
\* returned order (up to the cap), the others are discarded, and the
\* accepted edges keep the returned order.
C4_PerSourceCap ==
    f_pc = "done" =>
        /\ \A s \in f_sources :
              /\ CountSource(f_result.edges, s) <= f_limit
              /\ FromSource(f_result.edges, s)
                    = Take(FromSource(Triples(f_bindings), s), f_limit)
        /\ \A i \in 1..Len(f_result.edges) : f_result.edges[i][1] \in f_sources
        /\ Len(f_bindings) <= MaxRows + 1 =>
              LET kept == KeptRows(f_bindings, f_limit)
              IN  /\ Len(f_result.edges) = Cardinality(kept)
                  /\ \A i \in kept :
                        f_result.edges[Cardinality({j \in kept : j <= i})]
                            = Triples(f_bindings)[i]

\* C4 witness: the service returned more rows of a source than the cap, and
\* exactly cap of them were accepted.
C4_Witness ==
    /\ f_pc = "done"
    /\ \E s \in f_sources :
          /\ CountSource(Triples(f_bindings), s) > f_limit
          /\ CountSource(f_result.edges, s) = f_limit

\* C5, as claimed: in a fetch for A and B with cap 20 and a row limit of
\* 200, where A alone has 200 matching rows and B at least one, exactly 20
\* edges are accepted for A and between 1 and 20 for B.
C5_NoStarvation ==
    (/\ f_pc = "done"
     /\ f_ok
     /\ f_sources = {SourceA, SourceB}
     /\ f_limit = 20
     /\ TotalLimit(f_sources) = 200
     /\ CountSource(Triples(f_matching), SourceA) = 200
     /\ CountSource(Triples(f_matching), SourceB) >= 1)
    => /\ CountSource(f_result.edges, SourceA) = 20
       /\ CountSource(f_result.edges, SourceB) \in 1..20

\* The number of entries of a list that equal x.
Copies(seq, x) == Cardinality({i \in 1..Len(seq) : seq[i] = x})

\* C25: the fetcher keeps duplicates: when the service returns the same
\* (source, property, target) row several times, the accepted edges hold
\* one copy for each returned copy that is within the source's quota, and
\* each copy counts against the cap like any other row: a source has as
\* many accepted edges as returned rows, copies included, up to the cap.
C25_DuplicatesKept ==
    (f_pc = "done" /\ f_ok /\ Len(f_bindings) <= MaxRows + 1) =>
        LET rows == Triples(f_bindings)
            kept == KeptRows(f_bindings, f_limit)
        IN  /\ \A i \in 1..Len(rows) :
                  Copies(f_result.edges, rows[i])
                      = Cardinality({j \in kept : rows[j] = rows[i]})
            /\ \A s \in f_sources :
                  CountSource(f_result.edges, s)
                      = Min(f_limit, CountSource(rows, s))

\* C25 witness: the service returned one row three times under a cap of 2;
\* two copies were accepted and the third was over the quota.
C25_Witness ==
    /\ f_pc = "done"
    /\ f_ok
    /\ f_limit = 2
    /\ Len(f_bindings) = 3
    /\ \E i \in 1..Len(f_bindings) :
          /\ Copies(Triples(f_bindings), Triples(f_bindings)[i]) = 3
          /\ Copies(f_result.edges, Triples(f_bindings)[i]) = 2

=============================================================================
